---- MODULE Spec2Model ----
(***************************************************************************)
(* Word-cloud layout engine (src/src/lib.rs): the WordCloud object, its    *)
(* setters, reset_grid and generate_layout with the spiral search, the     *)
(* rotated-rectangle collision test and the occupancy grid bookkeeping.    *)
(*                                                                         *)
(* Numbers.  The program computes in f64.  The model computes in fixed     *)
(* point: lengths and coordinates are integers counting 1/UNIT of a canvas *)
(* unit, angles are integers counting 1/ANGLE of a radian, sines, cosines  *)
(* and ratios are integers counting 1/ANGLE.  Divisions round down.        *)
(* Weights are small integers, so no f64 overflow or NaN is modelled.      *)
(***************************************************************************)
EXTENDS Integers, Sequences, FiniteSets

(***************************************************************************)
(* Fixed-point scales and the bounds of the model.                         *)
(***************************************************************************)
UNIT == 100
ANGLE == 10000
MICRO == 100
MaxWords == 2

(***************************************************************************)
(* Option<T>: None is the empty sequence, Some(v) the one-element one.     *)
(***************************************************************************)
None == << >>
Some(v) == << v >>
IsSome(o) == Len(o) = 1
Unwrap(o) == o[1]

Min2(a, b) == IF a <= b THEN a ELSE b
Max2(a, b) == IF a >= b THEN a ELSE b

RECURSIVE SeqSum(_)
SeqSum(s) == IF s = << >> THEN 0 ELSE Head(s) + SeqSum(Tail(s))

(***************************************************************************)
(* Trigonometry (f64 sin and cos, Math::sin and Math::cos).  Angles in     *)
(* 1/ANGLE rad, values in 1/ANGLE.  SinQ is the Taylor polynomial of sin   *)
(* up to x^9 on [0, pi/2].                                                 *)
(***************************************************************************)
HALF_PI == 15708
PI == 31416
TWO_PI == 62832
TWO_PI_MICRO == 6283185

SinQ(x) ==
    LET x2 == (x * x) \div ANGLE
        t4 == ANGLE - (x2 \div 72)
        t3 == ANGLE - (((x2 * t4) \div ANGLE) \div 42)
        t2 == ANGLE - (((x2 * t3) \div ANGLE) \div 20)
        t1 == ANGLE - (((x2 * t2) \div ANGLE) \div 6)
    IN  (x * t1) \div ANGLE

\* sin of an angle already reduced to [0, 2 pi)
SinR(r) ==
    IF r <= HALF_PI THEN SinQ(r)
    ELSE IF r <= PI THEN SinQ(PI - r)
    ELSE IF r <= PI + HALF_PI THEN 0 - SinQ(r - PI)
    ELSE 0 - SinQ(TWO_PI - r)

\* an angle given in 1/(ANGLE*MICRO) rad, reduced to [0, 2 pi) in 1/ANGLE rad
Reduce(m) == Min2((m % TWO_PI_MICRO) \div MICRO, TWO_PI - 1)

Sin(m) == SinR(Reduce(m))
Cos(m) == SinR((Reduce(m) + HALF_PI) % TWO_PI)

(***************************************************************************)
(* String::len() counts the bytes of the UTF-8 encoding.  A text is a      *)
(* sequence of code points.                                                *)
(***************************************************************************)
Utf8Len(cp) ==
    IF cp < 128 THEN 1
    ELSE IF cp < 2048 THEN 2
    ELSE IF cp < 65536 THEN 3
    ELSE 4

StrLen(text) == SeqSum([i \in 1..Len(text) |-> Utf8Len(text[i])])

(***************************************************************************)
(* The grid.  grid[i][j], i in 0..grid_width-1, j in 0..grid_height-1.     *)
(***************************************************************************)
grid_size == 4
MAX_ATTEMPTS == 1000

GridWidth(g) == Cardinality(DOMAIN g)
GridHeight(g) == Cardinality(DOMAIN g[0])

\* vec![vec![false; grid_height]; grid_width]
NewGrid(width, height) ==
    LET grid_width == (width \div grid_size) + 1
        grid_height == (height \div grid_size) + 1
    IN  [i \in 0..(grid_width - 1) |-> [j \in 0..(grid_height - 1) |-> FALSE]]

\* faulty variant: the grid is kept when its dimensions still match the canvas
reset_grid_if_resized(options, grid) ==
    IF DOMAIN grid = DOMAIN NewGrid(options.width, options.height)
    THEN grid ELSE NewGrid(options.width, options.height)

\* the grid that reset_grid stores in self.grid
reset_grid(options, grid) == NewGrid(options.width, options.height)

\* `v as usize` of an f64: the fraction is dropped, a negative value gives 0
AsUsize(v) == IF v < 0 THEN 0 ELSE v \div UNIT

\* u32 `as f64`, in 1/UNIT
AsF64(n) == n * UNIT

(***************************************************************************)
(* The four corners of the rectangle, rotated about its centre, and the    *)
(* min/max box over them.  Each corner is moved to (x, y) after it is      *)
(* rotated, so the box at (x, y) is the box at (0, 0) moved by (x, y).     *)
(***************************************************************************)
MinOf(S) == CHOOSE v \in S : \A u \in S : v <= u
MaxOf(S) == CHOOSE v \in S : \A u \in S : v >= u

RotatedExtent(width, height, rotation) ==
    LET sin_rot == Sin(rotation * MICRO)
        cos_rot == Cos(rotation * MICRO)
        half_width == width \div 2
        half_height == height \div 2
        corners == << <<0 - half_width, 0 - half_height>>,
                      <<half_width, 0 - half_height>>,
                      <<half_width, half_height>>,
                      <<0 - half_width, half_height>> >>
        xs == {(corners[k][1] * cos_rot - corners[k][2] * sin_rot) \div ANGLE : k \in 1..4}
        ys == {(corners[k][1] * sin_rot + corners[k][2] * cos_rot) \div ANGLE : k \in 1..4}
    IN  [min_x |-> MinOf(xs), max_x |-> MaxOf(xs), min_y |-> MinOf(ys), max_y |-> MaxOf(ys)]

MoveTo(e, x, y) ==
    [min_x |-> e.min_x + x, max_x |-> e.max_x + x,
     min_y |-> e.min_y + y, max_y |-> e.max_y + y]

RotatedBounds(x, y, width, height, rotation) ==
    MoveTo(RotatedExtent(width, height, rotation), x, y)

\* faulty variant: the ranges end at the cell that holds the larger bound
GridRangeTight(grid, b) ==
    [grid_min_x |-> Max2(AsUsize(b.min_x) \div grid_size, 0),
     grid_max_x |-> Min2(AsUsize(b.max_x) \div grid_size, GridWidth(grid) - 1),
     grid_min_y |-> Max2(AsUsize(b.min_y) \div grid_size, 0),
     grid_max_y |-> Min2(AsUsize(b.max_y) \div grid_size, GridHeight(grid) - 1)]

\* the inclusive ranges of grid indices that both loops visit
GridRange(grid, b) ==
    [grid_min_x |-> Max2(AsUsize(b.min_x) \div grid_size, 0),
     grid_max_x |-> Min2((AsUsize(b.max_x) \div grid_size) + 1, GridWidth(grid) - 1),
     grid_min_y |-> Max2(AsUsize(b.min_y) \div grid_size, 0),
     grid_max_y |-> Min2((AsUsize(b.max_y) \div grid_size) + 1, GridHeight(grid) - 1)]

\* faulty variant: the canvas test is missing
CollidesGridOnly(options, grid, b) ==
    LET r == GridRange(grid, b)
    IN  \E i \in r.grid_min_x..r.grid_max_x :
            \E j \in r.grid_min_y..r.grid_max_y :
                i < GridWidth(grid) /\ j < GridHeight(grid) /\ grid[i][j]

\* check_collision from the box on: true when a visited cell is occupied or
\* the box leaves the canvas (the two tests have no effect on each other; the
\* canvas test is written first because it is the cheaper one to evaluate)
Collides(options, grid, b) ==
    \/ b.min_x < 0
    \/ b.max_x > AsF64(options.width)
    \/ b.min_y < 0
    \/ b.max_y > AsF64(options.height)
    \/ LET r == GridRange(grid, b)
       IN  \E i \in r.grid_min_x..r.grid_max_x :
               \E j \in r.grid_min_y..r.grid_max_y :
                   i < GridWidth(grid) /\ j < GridHeight(grid) /\ grid[i][j]

check_collision(options, grid, x, y, width, height, rotation) ==
    Collides(options, grid, RotatedBounds(x, y, width, height, rotation))

\* mark_grid_as_occupied from the box on
Occupy(grid, b) ==
    LET r == GridRange(grid, b)
    IN  [i \in DOMAIN grid |-> [j \in DOMAIN grid[i] |->
            IF /\ i \in r.grid_min_x..r.grid_max_x
               /\ j \in r.grid_min_y..r.grid_max_y
            THEN TRUE ELSE grid[i][j]]]

\* faulty variant: only the cell under the centre of the word is marked
mark_centre_cell(grid, x, y, width, height, rotation) ==
    [i \in DOMAIN grid |-> [j \in DOMAIN grid[i] |->
        IF i = AsUsize(x) \div grid_size /\ j = AsUsize(y) \div grid_size
        THEN TRUE ELSE grid[i][j]]]

\* the grid after mark_grid_as_occupied
mark_grid_as_occupied(grid, x, y, width, height, rotation) ==
    Occupy(grid, RotatedBounds(x, y, width, height, rotation))

(***************************************************************************)
(* The spiral.  At the start of attempt n the loop variables are           *)
(* t = n * dt and a = n * step (a only grows in the two named branches).   *)
(***************************************************************************)
STEP_MICRO == 100000
RECT_DT_MICRO == 2000000
STEP_LEN == 10

Sign(n) == IF n < 0 THEN 0 - 1 ELSE 1

SpiralDt(spiral) == IF spiral = "rectangular" THEN RECT_DT_MICRO ELSE STEP_MICRO

\* faulty variant: a and t are advanced before the candidate is computed
SpiralOffsetAdvanced(spiral, n) ==
    LET dt == SpiralDt(spiral)
        t == (n + 1) * dt
        a == (n + 1) * STEP_LEN
    IN  IF spiral = "rectangular"
        THEN << Sign(Cos(t)) * a, Sign(Sin(t)) * a >>
        ELSE << (a * Cos(t)) \div ANGLE, (a * Sin(t)) \div ANGLE >>

\* what attempt n adds to (center_x, center_y)
SpiralOffset(spiral, n) ==
    LET dt == SpiralDt(spiral)
        t == n * dt
        a == n * STEP_LEN
    IN  IF spiral = "archimedean"
        THEN << (a * Cos(t)) \div ANGLE, (a * Sin(t)) \div ANGLE >>
        ELSE IF spiral = "rectangular"
        THEN LET k == t \div dt
             IN  IF k % 2 = 0
                 THEN << Sign(Cos(t)) * a, Sign(Sin(t)) * a >>
                 ELSE << Sign(Sin(t)) * a, Sign(Cos(t)) * a >>
        ELSE << 0, 0 >>

\* (x, y) tested by attempt n
Candidate(spiral, n, center_x, center_y) ==
    LET off == SpiralOffset(spiral, n)
    IN  << center_x + off[1], center_y + off[2] >>

\* the first attempt in lo..hi whose candidate does not collide, or -1;
\* extent is the rotated box of the word at (0, 0)
RECURSIVE FirstFree(_, _, _, _, _, _, _)
FirstFree(options, grid, center_x, center_y, extent, lo, hi) ==
    IF lo = hi
    THEN LET c == Candidate(options.spiral, lo, center_x, center_y)
         IN  IF ~Collides(options, grid, MoveTo(extent, c[1], c[2]))
             THEN lo ELSE 0 - 1
    ELSE LET mid == (lo + hi) \div 2
             l == FirstFree(options, grid, center_x, center_y, extent, lo, mid)
         IN  IF l >= 0 THEN l
             ELSE FirstFree(options, grid, center_x, center_y, extent, mid + 1, hi)

find_position_for_word(options, grid, center_x, center_y, word_width, word_height, rotation) ==
    LET extent == RotatedExtent(word_width, word_height, rotation)
        n == FirstFree(options, grid, center_x, center_y, extent, 0, MAX_ATTEMPTS - 1)
    IN  IF n >= 0 THEN Some(Candidate(options.spiral, n, center_x, center_y)) ELSE None

(***************************************************************************)
(* Inputs.  words_json is either text that is no JSON array of objects, or *)
(* an array of objects whose fields may be absent.                         *)
(***************************************************************************)
RawItem(text, weight, color, rotate) ==
    [text |-> text, weight |-> weight, color |-> color, rotate |-> rotate]

TextAb == << 97, 98 >>
TextAccent == << 97, 233 >>
TextWide == << 97, 98, 99, 100, 101, 102, 103, 104, 105 >>

RawItems ==
    { RawItem(Some(TextAb), Some(3), None, None),
      RawItem(Some(TextAccent), Some(2), Some("red"), Some(HALF_PI)),
      RawItem(Some(TextWide), Some(1), Some("blue"), Some(0)),
      RawItem(Some(TextAb), None, None, None) }

RECURSIVE SeqsUpTo(_, _)
SeqsUpTo(S, n) ==
    IF n = 0 THEN { << >> }
    ELSE LET shorter == SeqsUpTo(S, n - 1)
         IN  shorter \cup { Append(q, e) : q \in shorter, e \in S }

Garbage == [kind |-> "garbage", items |-> << >>]
JsonArray(items) == [kind |-> "array", items |-> items]

Inputs == { Garbage } \cup { JsonArray(q) : q \in SeqsUpTo(RawItems, MaxWords) }

\* faulty variant: objects without text or weight are skipped
ParseWordsLenient(words_json) ==
    IF words_json.kind = "array"
    THEN LET good == SelectSeq(words_json.items,
                               LAMBDA it : IsSome(it.text) /\ IsSome(it.weight))
         IN  Some([k \in 1..Len(good) |->
                     [text |-> Unwrap(good[k].text), weight |-> Unwrap(good[k].weight),
                      color |-> good[k].color, rotate |-> good[k].rotate]])
    ELSE None

\* serde_json::from_str::<Vec<WordItem>>: text and weight are required
ParseWords(words_json) ==
    IF /\ words_json.kind = "array"
       /\ \A k \in 1..Len(words_json.items) :
              IsSome(words_json.items[k].text) /\ IsSome(words_json.items[k].weight)
    THEN Some([k \in 1..Len(words_json.items) |->
                  [text |-> Unwrap(words_json.items[k].text),
                   weight |-> Unwrap(words_json.items[k].weight),
                   color |-> words_json.items[k].color,
                   rotate |-> words_json.items[k].rotate]])
    ELSE None

(***************************************************************************)
(* Configurations of the constructor, and the arguments of the setters.    *)
(***************************************************************************)
NewOptions(width, height, min_size, max_size) ==
    [width |-> width, height |-> height, min_size |-> min_size, max_size |-> max_size,
     rotation_range |-> 0, spiral |-> "archimedean"]

Constructions ==
    { NewOptions(48, 24, 4 * UNIT, 8 * UNIT),
      NewOptions(30, 21, 6 * UNIT, 6 * UNIT) }

SpiralArgs == { "archimedean", "rectangular", "circular" }
RotationRangeArgs == { 0, PI \div 6 }

\* values of Math::random(), in 1/ANGLE
RandomValues == { 0, ANGLE - 1 }

(***************************************************************************)
(* The pieces of one iteration of the loop of generate_layout.             *)
(***************************************************************************)
F64_INFINITY == 2147483647

RECURSIVE FoldMax(_, _)
FoldMax(ws, acc) ==
    IF ws = << >> THEN acc ELSE FoldMax(Tail(ws), Max2(acc, Head(ws).weight))

RECURSIVE FoldMin(_, _)
FoldMin(ws, acc) ==
    IF ws = << >> THEN acc ELSE FoldMin(Tail(ws), Min2(acc, Head(ws).weight))

MaxWeightOf(ws) == FoldMax(ws, 0 - F64_INFINITY)
MinWeightOf(ws) == FoldMin(ws, F64_INFINITY)

\* faulty variant: equal weights give the middle of the size range
FontSizeMidpoint(options, weight, min_w, max_w) ==
    IF max_w = min_w
    THEN (options.min_size + options.max_size) \div 2
    ELSE options.min_size
         + ((((weight - min_w) * ANGLE) \div (max_w - min_w))
            * (options.max_size - options.min_size)) \div ANGLE

FontSize(options, weight, min_w, max_w) ==
    IF max_w = min_w
    THEN options.max_size
    ELSE options.min_size
         + ((((weight - min_w) * ANGLE) \div (max_w - min_w))
            * (options.max_size - options.min_size)) \div ANGLE

\* size * 0.6 * word.text.len() as f64
WordWidth(size, text) == (size * 6 * StrLen(text)) \div 10

\* (Math::random() * 2.0 - 1.0) * rotation_range
RandomRotation(u, rotation_range) == ((u * 2 - ANGLE) * rotation_range) \div ANGLE

NeedsRandom(options, word) == word.rotate = None /\ options.rotation_range > 0

Rotation(options, word, u) ==
    IF IsSome(word.rotate) THEN Unwrap(word.rotate)
    ELSE IF options.rotation_range > 0 THEN RandomRotation(u, options.rotation_range)
    ELSE 0

WordPosition(word, x, y, rotation, size) ==
    [text |-> word.text, weight |-> word.weight, x |-> x, y |-> y,
     rotate |-> rotation, color |-> word.color, size |-> Some(size)]

\* faulty variant: the new label is put in front
PushFront(placed, p) == << p >> \o placed

\* placed_words.push(...)
Push(placed, p) == Append(placed, p)

\* what one iteration does to (grid, placed_words), with rotation resolved
PlaceOne(options, g, placed, word, min_w, max_w, rotation) ==
    LET size == FontSize(options, word.weight, min_w, max_w)
        word_width == WordWidth(size, word.text)
        word_height == size
        center_x == AsF64(options.width) \div 2
        center_y == AsF64(options.height) \div 2
        pos == find_position_for_word(options, g, center_x, center_y,
                                      word_width, word_height, rotation)
    IN  IF IsSome(pos)
        THEN [grid |-> mark_grid_as_occupied(g, Unwrap(pos)[1], Unwrap(pos)[2],
                                             word_width, word_height, rotation),
              placed |-> Push(placed, WordPosition(word, Unwrap(pos)[1], Unwrap(pos)[2],
                                                   rotation, size))]
        ELSE [grid |-> g, placed |-> placed]

(***************************************************************************)
(* State.  options and grid are the fields of the WordCloud; the others    *)
(* belong to the call of generate_layout in progress or just returned.     *)
(***************************************************************************)
VARIABLES options, grid, pc, input, words, min_weight, max_weight, idx,
          placed_words, rotations, word_width, word_height, result

vars == << options, grid, pc, input, words, min_weight, max_weight, idx,
           placed_words, rotations, word_width, word_height, result >>

NoCall ==
    /\ input = Garbage
    /\ words = << >>
    /\ min_weight = 0
    /\ max_weight = 0
    /\ idx = 0
    /\ placed_words = << >>
    /\ rotations = << >>
    /\ word_width = 0
    /\ word_height = 0
    /\ result = << >>

\* the frame of the call that returned is gone
DropCall ==
    /\ input' = Garbage
    /\ words' = << >>
    /\ min_weight' = 0
    /\ max_weight' = 0
    /\ idx' = 0
    /\ placed_words' = << >>
    /\ rotations' = << >>
    /\ word_width' = 0
    /\ word_height' = 0
    /\ result' = << >>

\* WordCloud::new
Init ==
    /\ options \in Constructions
    /\ grid = NewGrid(options.width, options.height)
    /\ pc = "idle"
    /\ NoCall

\* pub fn reset_grid
ResetGrid ==
    /\ pc # "placing"
    /\ grid' = reset_grid(options, grid)
    /\ pc' = "idle"
    /\ DropCall
    /\ UNCHANGED options

\* pub fn set_rotation_range
SetRotationRange ==
    /\ pc # "placing"
    /\ \E rotation_range \in RotationRangeArgs :
           options' = [options EXCEPT !.rotation_range = rotation_range]
    /\ pc' = "idle"
    /\ DropCall
    /\ UNCHANGED grid

\* pub fn set_spiral
SetSpiral ==
    /\ pc # "placing"
    /\ \E spiral \in SpiralArgs : options' = [options EXCEPT !.spiral = spiral]
    /\ pc' = "idle"
    /\ DropCall
    /\ UNCHANGED grid

\* generate_layout up to the loop: reset, parse, the two early returns, min/max
GenerateLayout ==
    /\ pc # "placing"
    /\ \E words_json \in Inputs :
        LET parsed == ParseWords(words_json)
            early == parsed = None \/ Unwrap(parsed) = << >>
        IN  /\ input' = words_json
            /\ grid' = reset_grid(options, grid)
            /\ words' = IF early THEN << >> ELSE Unwrap(parsed)
            /\ min_weight' = IF early THEN 0 ELSE MinWeightOf(Unwrap(parsed))
            /\ max_weight' = IF early THEN 0 ELSE MaxWeightOf(Unwrap(parsed))
            /\ idx' = IF early THEN 0 ELSE 1
            /\ pc' = IF early THEN "done" ELSE "placing"
    /\ placed_words' = << >>
    /\ rotations' = << >>
    /\ word_width' = 0
    /\ word_height' = 0
    /\ result' = << >>
    /\ UNCHANGED options

\* one iteration of `for word in words`
PlaceWord ==
    /\ pc = "placing"
    /\ idx <= Len(words)
    /\ LET word == words[idx]
           size == FontSize(options, word.weight, min_weight, max_weight)
       IN  \E u \in (IF NeedsRandom(options, word) THEN RandomValues ELSE { 0 }) :
             LET rotation == Rotation(options, word, u)
                 after == PlaceOne(options, grid, placed_words, word,
                                   min_weight, max_weight, rotation)
             IN  /\ grid' = after.grid
                 /\ placed_words' = after.placed
                 /\ rotations' = Append(rotations, rotation)
                 /\ word_width' = WordWidth(size, word.text)
                 /\ word_height' = size
    /\ idx' = idx + 1
    /\ UNCHANGED << options, pc, input, words, min_weight, max_weight, result >>

\* the end of the loop: the placed words are serialised and returned
Return ==
    /\ pc = "placing"
    /\ idx > Len(words)
    /\ result' = placed_words
    /\ pc' = "done"
    /\ UNCHANGED << options, grid, input, words, min_weight, max_weight, idx,
                    placed_words, rotations, word_width, word_height >>

Next ==
    \/ ResetGrid
    \/ SetRotationRange
    \/ SetSpiral
    \/ GenerateLayout
    \/ PlaceWord
    \/ Return

Spec == Init /\ [][Next]_vars


(***************************************************************************)
(* generate_layout as a function: the loop run from grid g on the words    *)
(* ws with the rotation of each word given, and the whole call on a        *)
(* WordCloud that was just constructed with the given options.             *)
(***************************************************************************)
RECURSIVE LayoutFrom(_, _, _, _, _, _, _)
LayoutFrom(opts, g, placed, ws, rots, min_w, max_w) ==
    IF ws = << >> THEN placed
    ELSE LET after == PlaceOne(opts, g, placed, Head(ws), min_w, max_w, Head(rots))
         IN  LayoutFrom(opts, after.grid, after.placed, Tail(ws), Tail(rots), min_w, max_w)

FreshLayout(opts, words_json, rots) ==
    LET parsed == ParseWords(words_json)
    IN  IF parsed = None \/ Unwrap(parsed) = << >> THEN << >>
        ELSE LayoutFrom(opts, NewGrid(opts.width, opts.height), << >>, Unwrap(parsed), rots,
                        MinWeightOf(Unwrap(parsed)), MaxWeightOf(Unwrap(parsed)))

(***************************************************************************)
(* Vocabulary of the properties.                                           *)
(***************************************************************************)
InRun == pc \in { "placing", "done" }
Returned == pc = "done"

\* the rotated bounding box of a placed label, recomputed from what is returned
BoxOf(p) ==
    RotatedBounds(p.x, p.y, WordWidth(Unwrap(p.size), p.text), Unwrap(p.size), p.rotate)

\* two closed boxes share no point
Apart(a, b) ==
    \/ a.max_x < b.min_x
    \/ b.max_x < a.min_x
    \/ a.max_y < b.min_y
    \/ b.max_y < a.min_y

AllFalse(g) == \A i \in DOMAIN g : \A j \in DOMAIN g[i] : ~g[i][j]

CentreX == (options.width * UNIT) \div 2
CentreY == (options.height * UNIT) \div 2

\* box b has a point in the cell [4i, 4i+4) x [4j, 4j+4)
Covers(b, i, j) ==
    /\ b.min_x < (grid_size * (i + 1)) * UNIT
    /\ b.max_x >= (grid_size * i) * UNIT
    /\ b.min_y < (grid_size * (j + 1)) * UNIT
    /\ b.max_y >= (grid_size * j) * UNIT

(***************************************************************************)
(* C1: no two labels of the returned list (nor of the list being built)    *)
(* have rotated bounding boxes with a common point.                        *)
(***************************************************************************)
C1_NoOverlap ==
    \A list \in { placed_words, result } :
        \A i, j \in 1..Len(list) :
            i < j => Apart(BoxOf(list[i]), BoxOf(list[j]))

\* a call returned two or more labels, one of them rotated
C1_Witness ==
    /\ Returned
    /\ Len(result) >= 2
    /\ \E i \in 1..Len(result) : result[i].rotate # 0

(***************************************************************************)
(* C2: the rotated bounding box of every returned label lies inside the    *)
(* canvas [0, width] x [0, height].                                        *)
(***************************************************************************)
C2_InsideCanvas ==
    \A list \in { placed_words, result } :
        \A i \in 1..Len(list) :
            LET b == BoxOf(list[i])
            IN  /\ b.min_x >= 0
                /\ b.max_x <= options.width * UNIT
                /\ b.min_y >= 0
                /\ b.max_y <= options.height * UNIT

\* a rotated label is returned away from the centre, where the search put it
\* after the candidates before were rejected
C2_Witness ==
    /\ Returned
    /\ \E i \in 1..Len(result) :
          /\ result[i].x # CentreX
          /\ result[i].rotate \notin { 0, HALF_PI }

(***************************************************************************)
(* C3 (as claimed): with a spiral kind that is neither "archimedean" nor   *)
(* "rectangular", a call returns what it returns with "archimedean".       *)
(***************************************************************************)
C3_UnknownSpiralIsArchimedean ==
    (Returned /\ options.spiral \notin { "archimedean", "rectangular" })
        => result = FreshLayout([options EXCEPT !.spiral = "archimedean"], input, rotations)

(***************************************************************************)
(* C4 (as claimed): a call with a single label whose rotation is 0, on an  *)
(* engine with rotation range 0, returns that label at the canvas centre.  *)
(***************************************************************************)
SingleUnrotated ==
    /\ Returned
    /\ Len(words) = 1
    /\ words[1].rotate \in { None, Some(0) }
    /\ options.rotation_range = 0

AtCentre(p, word) ==
    /\ p.text = word.text
    /\ p.weight = word.weight
    /\ p.color = word.color
    /\ p.rotate = 0
    /\ p.x = CentreX
    /\ p.y = CentreY

C4_SingleLabelAtCentre ==
    SingleUnrotated => (Len(result) = 1 /\ AtCentre(result[1], words[1]))

(***************************************************************************)
(* C4 (amended): such a call returns the label at the canvas centre when   *)
(* its extent fits the canvas (size * 0.6 * bytes <= width and size <=     *)
(* height), and the empty list when it does not; for every spiral kind.    *)
(***************************************************************************)
C4_SingleLabelAtCentreIfItFits ==
    SingleUnrotated =>
        LET w == (options.max_size * 6 * StrLen(words[1].text)) \div 10
            h == options.max_size
        IN  IF w <= options.width * UNIT /\ h <= options.height * UNIT
            THEN Len(result) = 1 /\ AtCentre(result[1], words[1])
            ELSE result = << >>

\* the single label is returned, under a spiral kind other than the default
C4_Witness ==
    /\ SingleUnrotated
    /\ Len(result) = 1
    /\ options.spiral # "archimedean"

(***************************************************************************)
(* C5: the returned list is a subsequence of the input list: there is a    *)
(* strictly increasing map from its positions to input positions that      *)
(* keeps text, weight and color; every input label was processed.          *)
(***************************************************************************)
C5_Subsequence ==
    Returned =>
        /\ idx = (IF words = << >> THEN 0 ELSE Len(words) + 1)
        /\ \E f \in [1..Len(result) -> 1..Len(words)] :
              /\ \A i, j \in 1..Len(result) : i < j => f[i] < f[j]
              /\ \A i \in 1..Len(result) :
                    /\ result[i].text = words[f[i]].text
                    /\ result[i].weight = words[f[i]].weight
                    /\ result[i].color = words[f[i]].color

\* the first label is left out and a later, different one is returned; and
\* the order of two returned labels is that of the input
C5_Witness ==
    /\ Returned
    /\ Len(words) >= 2
    /\ Len(result) >= 1
    /\ Len(result) < Len(words)
    /\ \A i \in 1..Len(result) : result[i].text # words[1].text

Malformed(words_json) ==
    \/ words_json.kind # "array"
    \/ \E k \in 1..Len(words_json.items) :
          words_json.items[k].text = None \/ words_json.items[k].weight = None

C7_EmptyOrMalformed ==
    (InRun /\ (Malformed(input) \/ input.items = << >>)) =>
        /\ Returned
        /\ result = << >>
        /\ placed_words = << >>
        /\ AllFalse(grid)

\* an array with a well-formed first object and a later one without weight
C7_Witness ==
    /\ Returned
    /\ input.kind = "array"
    /\ Len(input.items) >= 2
    /\ input.items[1].weight # None
    /\ Malformed(input)

(***************************************************************************)
(* C8: the grid is all-false when the loop of a call starts, and what a    *)
(* call returns is what a just-constructed WordCloud with the same options *)
(* returns for the same input and the same rotations.                      *)
(***************************************************************************)
C8_FreshGridEachRun ==
    /\ (pc = "placing" /\ idx = 1) => AllFalse(grid)
    /\ Returned => result = FreshLayout(options, input, rotations)

\* a call returned a label with a drawn rotation on an engine whose two
\* setters had been used
C8_Witness ==
    /\ Returned
    /\ Len(result) >= 1
    /\ options.spiral = "rectangular"
    /\ options.rotation_range > 0
    /\ result[1].rotate \notin { 0, HALF_PI }

(***************************************************************************)
(* C9 (as claimed): during a call a cell is true iff the rotated bounding  *)
(* box of a committed label covers a part of its area, i.e. iff it lies in *)
(* the range floor(min/4)..floor(max/4) of a committed label.              *)
(***************************************************************************)
C9_TrueIffCovered ==
    InRun =>
        \A i \in DOMAIN grid : \A j \in DOMAIN grid[i] :
            grid[i][j] <=> \E k \in 1..Len(placed_words) : Covers(BoxOf(placed_words[k]), i, j)

(***************************************************************************)
(* C9 (amended): during a call a cell [i][j] is true iff for a committed   *)
(* label i is in floor(min_x/4)..floor(max_x/4)+1 and j is in              *)
(* floor(min_y/4)..floor(max_y/4)+1 (the last index of the grid at most);  *)
(* every cell that a committed box covers is true.                         *)
(***************************************************************************)
C9_TrueIffInWidenedRange ==
    InRun =>
        \A i \in DOMAIN grid : \A j \in DOMAIN grid[i] :
            /\ grid[i][j] <=>
                  \E k \in 1..Len(placed_words) :
                      LET b == BoxOf(placed_words[k])
                      IN  /\ i >= (b.min_x \div UNIT) \div 4
                          /\ i <= ((b.max_x \div UNIT) \div 4) + 1
                          /\ j >= (b.min_y \div UNIT) \div 4
                          /\ j <= ((b.max_y \div UNIT) \div 4) + 1
            /\ (\E k \in 1..Len(placed_words) : Covers(BoxOf(placed_words[k]), i, j))
                  => grid[i][j]

\* a true cell that no committed box covers, while a call is in its loop
C9_Witness ==
    /\ pc = "placing"
    /\ Len(placed_words) >= 1
    /\ \E i \in DOMAIN grid : \E j \in DOMAIN grid[i] :
          /\ grid[i][j]
          /\ \A k \in 1..Len(placed_words) : ~Covers(BoxOf(placed_words[k]), i, j)

(***************************************************************************)
(* C10 (as claimed): the extent used for the word just processed is        *)
(* width = size * 0.6 * (number of characters) and height = size.          *)
(***************************************************************************)
C10_WidthByCharacters ==
    (InRun /\ idx > 1) =>
        LET word == words[idx - 1]
            size == FontSize(options, word.weight, min_weight, max_weight)
        IN  /\ word_height = size
            /\ word_width = (size * 6 * Len(word.text)) \div 10


====
